---- MODULE Spec2Model ----
(***************************************************************************)
(* Model of vnstock/explorer/vci/quote.py: the Quote adapter of the VCI    *)
(* provider.  One module-level logger is shared by every Quote instance;   *)
(* each instance carries its own symbol and show_log.  The program is      *)
(* single-threaded and synchronous: a caller constructs instances and      *)
(* invokes history(), intraday() or price_depth() one at a time; every     *)
(* invocation runs to its return or to the exception it raises.            *)
(***************************************************************************)
EXTENDS Integers, Sequences, FiniteSets, TLC

VARIABLES
    loggerLevel,   \* level of the module-level logger (quote.py line 24)
    instances,     \* the Quote objects built so far, by identity
    pc,            \* "idle": the caller may start an operation; "done": one ended
    last           \* the operation that ended last: arguments, outcome, requests sent

vars == <<loggerLevel, instances, pc, last>>

----------------------------------------------------------------------------
(* Bounds of the model *)

MaxInstances == 2
FirstDay == 19726          \* day number since 1970-01-01 of 2024-01-04, a Thursday
MaxDayOffset == 2

(* Program constants *)

SecondsPerDay == 86400
FallbackCount == 1000
PageWarnLimit == 30000

InstanceIds == 1..MaxInstances
Days == FirstDay..(FirstDay + MaxDayOffset)
Times == {43200}           \* "12:00:00"

----------------------------------------------------------------------------
(* Values *)

NoInstance == [constructed |-> FALSE, symbol |-> "-", show_log |-> TRUE]

\* A date string as the caller writes it: date-only, date-time, or neither.
DateOnly(d) == [fmt |-> "date", day |-> d, sec |-> 0]
DateTime(d, s) == [fmt |-> "datetime", day |-> d, sec |-> s]
BadDate == [fmt |-> "bad", day |-> 0, sec |-> 0]
NoDate == [fmt |-> "none", day |-> 0, sec |-> 0]

StartInputs == {BadDate} \cup {DateOnly(d) : d \in Days}
                   \cup {DateTime(d, s) : d \in Days, s \in Times}
EndInputs == {NoDate} \cup StartInputs

\* count_back: None or an int.
NoCount == [given |-> FALSE, n |-> 0]
Count(n) == [given |-> TRUE, n |-> n]
CountBackInputs == {NoCount, Count(0), Count(5)}

\* A Python number: its type and twice its value (so that x.5 is exact).
PyInt(n) == [type |-> "int", x2 |-> 2 * n]
PyFloat(x2) == [type |-> "float", x2 |-> x2]

TimeFrames == {"1m", "5m", "15m", "30m", "1H", "1D", "1W", "1M"}
IntervalInputs == TimeFrames \cup {"2D"}

SymbolInputs == {"VCB", "HNXINDEX", "XINDEX", ""}

\* Answers of the transport collaborator: records, nothing, or an exception.
Responses == {"rows", "empty", "raise"}

\* Answers of the market-hours oracle.
MarketAnswers == [is_trading_hour : BOOLEAN,
                  data_status : {"preparing", "real_time", "historical_only"}]

PageSizes == {100, PageWarnLimit, PageWarnLimit + 1}

----------------------------------------------------------------------------
(* Collaborators of quote.py (imported, lines 6-22) *)

\* validate_symbol(raw) -> normalized symbol; fails on a malformed symbol.
validate_symbol(raw) ==
    IF raw = "" THEN [ok |-> FALSE, symbol |-> "-"]
                ELSE [ok |-> TRUE, symbol |-> raw]

\* _INDEX_MAPPING: index alias -> internal code.
INDEX_MAPPING == [s \in {"HNXINDEX"} |-> "HNXIndex"]

\* 'INDEX' in symbol, over the symbols of the model.
HasIndexMarker(symbol) == symbol \in {"HNXINDEX", "XINDEX"}

\* normalize_interval(interval) -> TimeFrame; fails on an unrecognized string.
normalize_interval(interval) ==
    IF interval \in TimeFrames THEN [ok |-> TRUE, timeframe |-> interval]
                               ELSE [ok |-> FALSE, timeframe |-> "-"]

\* _INTERVAL_MAP: canonical timeframe -> provider code.  The keys are the eight
\* timeframes; the codes of the minute, hourly and daily timeframes are the ones
\* history() compares against (lines 140-146), the others stand for codes that
\* are none of these three.
INTERVAL_MAP ==
    [tf \in TimeFrames |->
        CASE tf = "1m"  -> "ONE_MINUTE"
          [] tf = "5m"  -> "FIVE_MINUTES"
          [] tf = "15m" -> "FIFTEEN_MINUTES"
          [] tf = "30m" -> "THIRTY_MINUTES"
          [] tf = "1H"  -> "ONE_HOUR"
          [] tf = "1D"  -> "ONE_DAY"
          [] tf = "1W"  -> "ONE_WEEK"
          [] tf = "1M"  -> "ONE_MONTH"]

IntervalMapKeys == DOMAIN INTERVAL_MAP
IntervalMapValues == {INTERVAL_MAP[k] : k \in DOMAIN INTERVAL_MAP}

\* TickerModel(symbol, start, end, interval): the request descriptor.
TickerModel(symbol, start, end, interval) ==
    [symbol |-> symbol, start |-> start, end |-> end, interval |-> interval]

\* logging: a record of level WARNING is emitted unless the level is CRITICAL.
WarningEnabled(level) == level # "CRITICAL"

\* pandas.bdate_range(start, end) (normalize=True): the weekdays from the day
\* of start to the day of end, both included.  Day 0 is a Thursday.
DayOf(instant) == instant \div SecondsPerDay
Weekday(d) == (d + 3) % 7
bdate_range(start_time, end_time) ==
    {d \in DayOf(start_time)..DayOf(end_time) : Weekday(d) < 5}

----------------------------------------------------------------------------
(* Outcomes of an operation *)

Raise(error, line, sent, warned) ==
    [result |-> error, line |-> line, sent |-> sent, warned |-> warned]
Return(value, line, sent, warned) ==
    [result |-> value, line |-> line, sent |-> sent, warned |-> warned]

----------------------------------------------------------------------------
(* Quote.__init__ and Quote._index_validation *)

index_validation(symbol) ==
    IF symbol \notin DOMAIN INDEX_MAPPING
    THEN [ok |-> FALSE, symbol |-> "-"]
    ELSE [ok |-> TRUE, symbol |-> INDEX_MAPPING[symbol]]

\* The logger level after __init__ ran line 49-50.
LevelAfterInit(level, show_log) == IF ~show_log THEN "CRITICAL" ELSE level

\* __init__: the object built (or not), the error, and the logger level left.
init(symbol, show_log, level) ==
    LET v == validate_symbol(symbol) IN
    IF ~v.ok
    THEN [object |-> NoInstance, result |-> "InvalidSymbolError", line |-> 39,
          level |-> level]
    ELSE LET lvl == LevelAfterInit(level, show_log) IN
         IF HasIndexMarker(v.symbol)
         THEN LET ix == index_validation(v.symbol) IN
              IF ~ix.ok
              THEN [object |-> NoInstance, result |-> "UnknownIndexError",
                    line |-> 60, level |-> lvl]
              ELSE [object |-> [constructed |-> TRUE, symbol |-> ix.symbol,
                                show_log |-> show_log],
                    result |-> "Quote", line |-> 53, level |-> lvl]
         ELSE [object |-> [constructed |-> TRUE, symbol |-> v.symbol,
                           show_log |-> show_log],
               result |-> "Quote", line |-> 52, level |-> lvl]

----------------------------------------------------------------------------
(* Quote._input_validation *)

input_validation(self, start, end, interval) ==
    LET n == normalize_interval(interval) IN
    IF ~n.ok
    THEN [ok |-> FALSE, error |-> "InvalidIntervalError", line |-> 67,
          ticker |-> TickerModel(self.symbol, start, end, "-")]
    ELSE LET ticker == TickerModel(self.symbol, start, end, n.timeframe) IN
         IF n.timeframe \notin IntervalMapValues
         THEN [ok |-> FALSE, error |-> "InvalidIntervalError", line |-> 78,
               ticker |-> ticker]
         ELSE [ok |-> TRUE, error |-> "-", line |-> 80, ticker |-> ticker]

----------------------------------------------------------------------------
(* Quote.history.  show_log is only handed to the transport and floating is  *)
(* never read: neither takes part in what the call computes.                 *)

\* datetime.strptime under "%Y-%m-%d %H:%M:%S", then under "%Y-%m-%d":
\* seconds since day 0, or failure.
strptime2(s) ==
    IF s.fmt = "datetime"
    THEN [ok |-> TRUE, dateOnly |-> FALSE, t |-> s.day * SecondsPerDay + s.sec]
    ELSE IF s.fmt = "date"
         THEN [ok |-> TRUE, dateOnly |-> TRUE, t |-> s.day * SecondsPerDay]
         ELSE [ok |-> FALSE, dateOnly |-> FALSE, t |-> 0]

\* end_time of lines 112-128; now is read only when end is None.
end_time_of(end, parsed, now) ==
    IF end.fmt # "none"
    THEN IF parsed.dateOnly THEN parsed.t + SecondsPerDay ELSE parsed.t
    ELSE now + SecondsPerDay

\* auto_count_back of lines 133-150.
auto_count_back(start_time, end_time, end, interval_value, count_back) ==
    LET business_days == bdate_range(start_time, end_time)
        len == Cardinality(business_days)
    IN  IF ~count_back.given /\ end.fmt # "none"
        THEN IF interval_value = "ONE_DAY" THEN PyInt(len + 1)
             ELSE IF interval_value = "ONE_HOUR" THEN PyFloat(13 * len + 2)
             ELSE IF interval_value = "ONE_MINUTE" THEN PyFloat(13 * len * 60 + 2)
             ELSE PyInt(FallbackCount)
        ELSE IF count_back.given THEN PyInt(count_back.n) ELSE PyInt(FallbackCount)

\* Lines 152-181: the request, the transport's answer, the table.
history_request(self, interval_value, end_time, count) ==
    [endpoint |-> "chart/OHLCChart/gap-chart", timeFrame |-> interval_value,
     symbols |-> <<self.symbol>>, to |-> end_time, countBack |-> count]

history_response(payload, resp) ==
    IF resp = "raise" THEN Raise("TransportError", 162, <<payload>>, FALSE)
    ELSE IF resp = "empty" THEN Raise("NoDataError", 175, <<payload>>, FALSE)
    ELSE Raise("NameError", 178, <<payload>>, FALSE)

\* Lines 100-181: history() once _input_validation returned ticker.
history_body(self, ticker, end, count_back, now, resp) ==
    LET ps == strptime2(ticker.start) IN
    IF ~ps.ok THEN Raise("InvalidDateFormatError", 109, <<>>, FALSE)
    ELSE
    LET pe == IF end.fmt # "none" THEN strptime2(ticker.end)
                                  ELSE [ok |-> TRUE, dateOnly |-> FALSE, t |-> 0]
    IN
    IF ~pe.ok THEN Raise("InvalidDateFormatError", 121, <<>>, FALSE)
    ELSE
    LET start_time == ps.t
        end_time == end_time_of(end, pe, now)
    IN
    IF end.fmt # "none" /\ start_time > end_time
    THEN Raise("InvalidRangeError", 124, <<>>, FALSE)
    ELSE IF ticker.interval \notin DOMAIN INTERVAL_MAP
    THEN Raise("KeyError", 130, <<>>, FALSE)
    ELSE
    LET interval_value == INTERVAL_MAP[ticker.interval]
        count == auto_count_back(start_time, end_time, end, interval_value,
                                 count_back)
    IN history_response(history_request(self, interval_value, end_time, count),
                        resp)

history(self, start, end, interval, count_back, now, resp) ==
    LET v == input_validation(self, start, end, interval) IN
    IF ~v.ok THEN Raise(v.error, v.line, <<>>, FALSE)
    ELSE history_body(self, v.ticker, end, count_back, now, resp)

----------------------------------------------------------------------------
(* Quote.intraday and Quote.price_depth *)

\* The precondition with "or" in place of "and".
market_unavailable_either(market_status) ==
    market_status.is_trading_hour = FALSE \/ market_status.data_status = "preparing"

\* The market-hours precondition of lines 195 and 245.
market_unavailable(market_status) ==
    market_status.is_trading_hour = FALSE /\ market_status.data_status = "preparing"

intraday_request(self, page_size, last_time) ==
    [endpoint |-> "LEData/getAll", symbol |-> self.symbol, limit |-> page_size,
     truncTime |-> last_time]

\* intraday() with the request sent before the market-hours check.
intraday_send_first(self, page_size, last_time, market_status, resp, level) ==
    LET payload == intraday_request(self, page_size, last_time) IN
    IF market_unavailable(market_status)
    THEN Raise("MarketUnavailableError", 196, <<payload>>, FALSE)
    ELSE IF resp = "raise" THEN Raise("TransportError", 212, <<payload>>, FALSE)
    ELSE Return("Table", 234, <<payload>>, FALSE)

\* intraday_to_df is a collaborator: it yields the table of the records it is
\* given (an empty table for no records).
intraday(self, page_size, last_time, market_status, resp, level) ==
    IF market_unavailable(market_status)
    THEN Raise("MarketUnavailableError", 196, <<>>, FALSE)
    ELSE IF self.symbol = "-"
    THEN Raise("ValueError", 199, <<>>, FALSE)
    ELSE
    LET warned == page_size > PageWarnLimit /\ WarningEnabled(level)
        payload == intraday_request(self, page_size, last_time)
    IN  IF resp = "raise" THEN Raise("TransportError", 212, <<payload>>, warned)
        ELSE Return("Table", 234, <<payload>>, warned)

price_depth_request(self) ==
    [endpoint |-> "AccumulatedPriceStepVol/getSymbolData", symbol |-> self.symbol]

\* DataFrame(data)[_PRICE_DEPTH_MAP.keys()] fails on a frame without those columns.
price_depth(self, market_status, resp) ==
    IF market_unavailable(market_status)
    THEN Raise("MarketUnavailableError", 246, <<>>, FALSE)
    ELSE IF self.symbol = "-"
    THEN Raise("ValueError", 249, <<>>, FALSE)
    ELSE
    LET payload == price_depth_request(self) IN
    IF resp = "raise" THEN Raise("TransportError", 257, <<payload>>, FALSE)
    ELSE IF resp = "empty" THEN Raise("KeyError", 273, <<payload>>, FALSE)
    ELSE Return("Table", 278, <<payload>>, FALSE)

----------------------------------------------------------------------------
(* The program *)

Idle == [op |-> "none"]

Init ==
    /\ loggerLevel = "DEFAULT"
    /\ instances = [i \in InstanceIds |-> NoInstance]
    /\ pc = "idle"
    /\ last = Idle

\* Quote(symbol, show_log=show_log) bound to identity i.
Construct(i) ==
    /\ pc = "idle"
    /\ ~instances[i].constructed
    /\ \E symbol \in SymbolInputs, show_log \in BOOLEAN :
         LET r == init(symbol, show_log, loggerLevel) IN
         /\ loggerLevel' = r.level
         /\ instances' = [instances EXCEPT ![i] = r.object]
         /\ last' = [op |-> "construct", inst |-> i,
                     args |-> [symbol |-> symbol, show_log |-> show_log],
                     result |-> r.result, line |-> r.line, sent |-> <<>>,
                     warned |-> FALSE]
    /\ pc' = "done"

\* instances[i].history(start, end, interval, count_back=count_back)
History(i) ==
    /\ pc = "idle"
    /\ instances[i].constructed
    /\ \E start \in StartInputs, end \in EndInputs, interval \in IntervalInputs,
          count_back \in CountBackInputs, resp \in Responses,
          nowDay \in Days :
         \* datetime.now() is read only when end is None (line 127)
         /\ end.fmt # "none" => nowDay = FirstDay
         /\ LET now == nowDay * SecondsPerDay + 43200
                r == history(instances[i], start, end, interval, count_back,
                             now, resp)
            IN last' = [op |-> "history", inst |-> i,
                        args |-> [start |-> start, end |-> end,
                                  interval |-> interval,
                                  count_back |-> count_back, now |-> now,
                                  resp |-> resp],
                        result |-> r.result, line |-> r.line, sent |-> r.sent,
                        warned |-> r.warned]
    /\ pc' = "done"
    /\ UNCHANGED <<loggerLevel, instances>>

\* instances[i].intraday(page_size, last_time)
Intraday(i) ==
    /\ pc = "idle"
    /\ instances[i].constructed
    /\ \E page_size \in PageSizes, last_time \in {"None", "14:30:00"},
          market \in MarketAnswers, resp \in Responses :
         LET r == intraday(instances[i], page_size, last_time, market, resp,
                           loggerLevel)
         IN last' = [op |-> "intraday", inst |-> i,
                     args |-> [page_size |-> page_size, last_time |-> last_time,
                               market |-> market, resp |-> resp],
                     result |-> r.result, line |-> r.line, sent |-> r.sent,
                     warned |-> r.warned]
    /\ pc' = "done"
    /\ UNCHANGED <<loggerLevel, instances>>

\* instances[i].price_depth()
PriceDepth(i) ==
    /\ pc = "idle"
    /\ instances[i].constructed
    /\ \E market \in MarketAnswers, resp \in Responses :
         LET r == price_depth(instances[i], market, resp)
         IN last' = [op |-> "price_depth", inst |-> i,
                     args |-> [market |-> market, resp |-> resp],
                     result |-> r.result, line |-> r.line, sent |-> r.sent,
                     warned |-> r.warned]
    /\ pc' = "done"
    /\ UNCHANGED <<loggerLevel, instances>>

\* The caller takes the result (or handles the exception) and goes on.
Continue ==
    /\ pc = "done"
    /\ pc' = "idle"
    /\ last' = Idle
    /\ UNCHANGED <<loggerLevel, instances>>

Next ==
    \/ \E i \in InstanceIds : Construct(i)
    \/ \E i \in InstanceIds : History(i)
    \/ \E i \in InstanceIds : Intraday(i)
    \/ \E i \in InstanceIds : PriceDepth(i)
    \/ Continue

Spec == Init /\ [][Next]_vars

----------------------------------------------------------------------------
(* Vocabulary of the properties *)

HistoryDone == pc = "done" /\ last.op = "history"
IntradayDone == pc = "done" /\ last.op = "intraday"
PriceDepthDone == pc = "done" /\ last.op = "price_depth"

\* The instant a date string denotes, in seconds since day 0.
Parses(s) == s.fmt \in {"date", "datetime"}
Instant(s) == s.day * SecondsPerDay + s.sec

\* Number of Mondays to Fridays among the days a..b.
WeekdaysIn(a, b) == Cardinality({d \in a..b : (d + 3) % 7 \notin {5, 6}})

ValidationErrors ==
    {"InvalidIntervalError", "InvalidDateFormatError", "InvalidRangeError"}

\* Arguments of history() that the specified validation accepts: an interval
\* of the map's key domain, dates that parse, and start <= end when end is given.
ValidHistoryArgs ==
    /\ last.args.interval \in IntervalMapKeys
    /\ Parses(last.args.start)
    /\ \/ last.args.end.fmt = "none"
       \/ /\ Parses(last.args.end)
          /\ Instant(last.args.start) <= Instant(last.args.end)

\* The oracle answer "not trading and preparing".
MarketPreparing(m) == m.is_trading_hour = FALSE /\ m.data_status = "preparing"

----------------------------------------------------------------------------
(* Properties *)

\* C1: a history() call with valid inputs whose transport response is
\* non-empty ends by returning the OHLC table, never in an error.
C1_TableAfterRows ==
    (HistoryDone /\ ValidHistoryArgs /\ last.args.resp = "rows")
        => last.result = "Table"

\* C2: when start and end both parse, start later than end ends the call with
\* the invalid-range error and no request; start equal to end passes validation.
C2_RangeCheck ==
    (HistoryDone /\ last.args.interval \in IntervalMapKeys
       /\ Parses(last.args.start) /\ Parses(last.args.end))
        => /\ Instant(last.args.start) > Instant(last.args.end)
                => (last.result = "InvalidRangeError" /\ last.sent = <<>>)
           /\ Instant(last.args.start) = Instant(last.args.end)
                => last.result \notin ValidationErrors

\* C3: with end given and count_back omitted, the countBack sent is B + 1
\* (daily), B x 6.5 + 1 (hourly) or B x 6.5 x 60 + 1 (minute), B the number of
\* weekdays from the caller's start to the caller's end, both included.
C3_EstimatedCount ==
    (HistoryDone /\ ValidHistoryArgs /\ last.args.end.fmt # "none"
       /\ ~last.args.count_back.given
       /\ last.args.interval \in {"1D", "1H", "1m"})
        => /\ Len(last.sent) = 1
           /\ LET B == WeekdaysIn(last.args.start.day, last.args.end.day)
                  sentX2 == last.sent[1].countBack.x2
              IN  /\ last.args.interval = "1D" => sentX2 = 2 * (B + 1)
                  /\ last.args.interval = "1H" => sentX2 = 13 * B + 2
                  /\ last.args.interval = "1m" => sentX2 = 13 * 60 * B + 2

\* C4: history() accepts an interval exactly when its timeframe is a key of
\* the interval map: a key never ends in the invalid-interval error nor in a
\* lookup error; any other interval ends in the invalid-interval error with
\* no request sent.
C4_IntervalAccepted ==
    HistoryDone
        => /\ last.args.interval \in IntervalMapKeys
                => last.result \notin {"InvalidIntervalError", "KeyError"}
           /\ last.args.interval \notin IntervalMapKeys
                => (last.result = "InvalidIntervalError" /\ last.sent = <<>>)

\* C5: a history() call with valid inputs whose transport response is empty
\* ends with the no-data error.
C5_NoDataOnEmpty ==
    (HistoryDone /\ ValidHistoryArgs /\ last.args.resp = "empty")
        => last.result = "NoDataError"

\* C6: intraday() and price_depth() end with the market-unavailable error
\* exactly when the oracle reports not trading and "preparing"; then no request
\* is sent; for every other answer exactly one request is sent.
C6_MarketGate ==
    (IntradayDone \/ PriceDepthDone)
        => /\ last.result = "MarketUnavailableError"
                <=> MarketPreparing(last.args.market)
           /\ MarketPreparing(last.args.market) => last.sent = <<>>
           /\ ~MarketPreparing(last.args.market) => Len(last.sent) = 1

C6_Witness ==
    /\ PriceDepthDone
    /\ last.args.market.is_trading_hour = FALSE
    /\ last.args.market.data_status = "historical_only"
    /\ Len(last.sent) = 1

\* C7: the countBack sent equals the caller's count_back whenever it is given
\* (0 included); with count_back and end both omitted it is 1000.
C7_ExplicitCount ==
    (HistoryDone /\ ValidHistoryArgs)
        => /\ last.args.count_back.given
                => /\ Len(last.sent) = 1
                   /\ last.sent[1].countBack.x2 = 2 * last.args.count_back.n
           /\ (~last.args.count_back.given /\ last.args.end.fmt = "none")
                => /\ Len(last.sent) = 1
                   /\ last.sent[1].countBack.x2 = 2 * 1000

\* C8: every execution of history(), intraday() or price_depth() calls the
\* transport at most once, and not at all when it ends with a validation
\* error or with the market-unavailable error.
C8_AtMostOneRequest ==
    (HistoryDone \/ IntradayDone \/ PriceDepthDone)
        => /\ Len(last.sent) <= 1
           /\ last.result \in ValidationErrors \cup {"MarketUnavailableError"}
                => last.sent = <<>>

C8_Witness ==
    /\ IntradayDone
    /\ last.result = "MarketUnavailableError"
    /\ last.sent = <<>>

\* C9: the countBack that a valid history() call sends is an integer.
C9_IntegerCount ==
    (HistoryDone /\ ValidHistoryArgs)
        => /\ Len(last.sent) = 1
           /\ last.sent[1].countBack.type = "int"
           /\ last.sent[1].countBack.x2 % 2 = 0

\* C10: an instance built with show_log=True emits the warning of intraday()
\* for a page_size over 30,000 whatever was constructed before it.
C10_WarningEmitted ==
    (IntradayDone /\ instances[last.inst].show_log
       /\ last.args.page_size > 30000
       /\ ~MarketPreparing(last.args.market))
        => last.warned

====
